---- MODULE Spec2Model ----
(***************************************************************************)
(* Model of the resilient GraphQL execution layer of go-shopify-graphql:   *)
(*   - graphql.Client.do / doRequest / shouldRetry  (retry loop, errors)   *)
(*   - graphqlclient.transport.RoundTrip / NewClient (credentials)         *)
(*   - ProductServiceOp.Get / getPage               (pagination walk)      *)
(***************************************************************************)
EXTENDS Integers, Sequences, FiniteSets, TLC

(* ------------------------------ bounds --------------------------------- *)
\* largest retry budget stored by SetRetries
MaxRetries == 3
\* SetRetries takes a Go int: budgets down to -MaxNeg are modelled
MaxNeg == 1
\* longest GraphQL errors array of a response handed to doRequest
MaxErrs == 2
\* longest GraphQL errors array of a response served to a call through do
MaxErrsDo == 1

\* most options passed to graphqlclient.NewClient
MaxOpts == 3
\* most page fetches of one ProductServiceOp.Get
MaxFetches == 3
\* most variant edges on one page
MaxPageLen == 2
\* most variants of the product a well-behaved server holds
MaxVariants == 4

(* --------------------------- program constants ------------------------- *)
MaxCostExceeded == "MAX_COST_EXCEEDED"

StatusOK == 200
StatusUnauthorized == 401
StatusPaymentRequired == 402
StatusForbidden == 403
StatusNotFound == 404
StatusLocked == 423
StatusInternalServerError == 500
StatusServiceUnavailable == 503
StatusGatewayTimeout == 504
\* a status without a typed error (429 Too Many Requests)
StatusOther == 429

(* ------------------------------ errors --------------------------------- *)
Nil == [kind |-> "nil"]

ErrPaymentRequired == [kind |-> "ErrPaymentRequired"]
ErrLocked == [kind |-> "ErrLocked"]
ErrUnauthorized == [kind |-> "ErrUnauthorized"]
ErrForbidden == [kind |-> "ErrForbidden"]
ErrNotFound == [kind |-> "ErrNotFound"]
ErrInternal == [kind |-> "ErrInternal"]
ErrServiceUnavailable == [kind |-> "ErrServiceUnavailable"]
ErrGatewayTimeout == [kind |-> "ErrGatewayTimeout"]
ErrMaxCostExceeded == [kind |-> "ErrMaxCostExceeded"]

\* errors.NewErrorWithContext(ctx, fmt.Errorf("non-200 OK status code: %v", ...))
ErrNon200(status) == [kind |-> "non200", status |-> status]
\* errors.NewErrorWithContext(ctx, fmt.Errorf("JSON decode response: %w", err))
ErrJSONDecode == [kind |-> "JSONDecode"]
\* errors.NewErrorWithContext(ctx, fmt.Errorf("unmarshal data: %w", err))
ErrUnmarshalData == [kind |-> "unmarshalData"]
\* the graphErrors slice returned through the error interface
graphErrors(es) == [kind |-> "graphErrors", errors |-> es]
\* *url.Error returned by the HTTP client
urlError(timeout, temporary) ==
    [kind |-> "urlError", timeout |-> timeout, temporary |-> temporary]
\* ctx.Err() of a cancelled or expired context, as ctxhttp.Post returns it
\* (context.Canceled or context.DeadlineExceeded: neither is a *url.Error)
ContextCanceled == [kind |-> "contextCanceled"]
\* fmt.Errorf("after %v attempts: %w", attempts, err)
AfterAttempts(n, e) == [kind |-> "afterAttempts", attempts |-> n, err |-> e]

\* err.Error()
ErrorString(e) ==
    IF e.kind = "graphErrors" THEN e.errors[1].message ELSE e.kind

\* errors.Is(err, target): err or the error it wraps is the sentinel
ErrorsIs(e, target) ==
    \/ e = target
    \/ e.kind = "afterAttempts" /\ e.err = target

isThrottledError(e) == e # Nil /\ ErrorString(e) = "Throttled"

\* pkghttp.IsConnectionError: a connection-level failure that is not a *url.Error
IsConnectionError(e) == e.kind = "connectionError"

\* a classifier that also retries a 500
shouldRetry_internal(e) ==
    IF e.kind = "urlError"
    THEN e.timeout \/ e.temporary
    ELSE \/ isThrottledError(e)
         \/ IsConnectionError(e)
         \/ ErrorsIs(e, ErrMaxCostExceeded)
         \/ ErrorsIs(e, ErrGatewayTimeout)
         \/ ErrorsIs(e, ErrServiceUnavailable)
         \/ ErrorsIs(e, ErrInternal)

shouldRetry(e) ==
    IF e.kind = "urlError"
    THEN e.timeout \/ e.temporary
    ELSE \/ isThrottledError(e)
         \/ IsConnectionError(e)
         \/ ErrorsIs(e, ErrMaxCostExceeded)
         \/ ErrorsIs(e, ErrGatewayTimeout)
         \/ ErrorsIs(e, ErrServiceUnavailable)

(* ----------------------------- responses ------------------------------- *)
Statuses ==
    { StatusOK, StatusUnauthorized, StatusPaymentRequired, StatusForbidden,
      StatusNotFound, StatusLocked, StatusInternalServerError,
      StatusServiceUnavailable, StatusGatewayTimeout, StatusOther }

Messages == {"Throttled", "Internal error"}
Codes == {MaxCostExceeded, "ACCESS_DENIED"}
ErrRecords == [message : Messages, code : Codes]

SeqsUpTo(S, n) == UNION { [1..k -> S] : k \in 0..n }

\* the data field of the envelope: absent (or null), decodable into the
\* destination, or of a type the destination rejects (json.Unmarshal then
\* fails after writing none or some of the destination's fields)
DataKinds == {"absent", "ok", "bad", "badPartial"}

\* bodies: one that is not a JSON envelope, and every envelope
Bodies(n) ==
    { [decodes |-> FALSE, data |-> "absent", errors |-> << >>] }
    \cup [decodes : {TRUE}, data : DataKinds, errors : SeqsUpTo(ErrRecords, n)]

HTTPResponses(n) ==
    { [kind |-> "http", status |-> s, body |-> b] :
        s \in Statuses, b \in Bodies(n) }

TransportFailures ==
    { [kind |-> "transport", err |-> urlError(to, tmp)] :
        to \in BOOLEAN, tmp \in BOOLEAN }

Responses(n) == HTTPResponses(n) \cup TransportFailures

\* the destination after json.Unmarshal(*out.Data, v)
Unmarshal(data, dst) ==
    CASE data = "ok" -> "data"
      [] data = "badPartial" -> "partial"
      [] OTHER -> dst

\* the status checks of doRequest: the typed error of a status, or Nil
typedStatusError_slip(status) ==
    CASE status = StatusPaymentRequired -> ErrPaymentRequired
      [] status = StatusLocked -> ErrLocked
      [] status = StatusUnauthorized -> ErrUnauthorized
      [] status = StatusForbidden -> ErrUnauthorized
      [] status = StatusNotFound -> ErrNotFound
      [] status = StatusInternalServerError -> ErrInternal
      [] status = StatusServiceUnavailable -> ErrServiceUnavailable
      [] status = StatusGatewayTimeout -> ErrGatewayTimeout
      [] OTHER -> Nil
typedStatusError(status) ==
    CASE status = StatusPaymentRequired -> ErrPaymentRequired
      [] status = StatusLocked -> ErrLocked
      [] status = StatusUnauthorized -> ErrUnauthorized
      [] status = StatusForbidden -> ErrForbidden
      [] status = StatusNotFound -> ErrNotFound
      [] status = StatusInternalServerError -> ErrInternal
      [] status = StatusServiceUnavailable -> ErrServiceUnavailable
      [] status = StatusGatewayTimeout -> ErrGatewayTimeout
      [] OTHER -> Nil

\* for _, e := range out.Errors { if e.Extensions.Code == MaxCostExceeded ...
hasMaxCostExceeded_first(es) == es[1].code = MaxCostExceeded
hasMaxCostExceeded(es) == \E i \in 1..Len(es) : es[i].code = MaxCostExceeded

\* a doRequest that unmarshals the body before it looks at the status
doRequest_eager(rsp, dst) ==
    IF rsp.kind = "transport" THEN [err |-> rsp.err, v |-> dst]
    ELSE LET w == IF rsp.body.decodes THEN Unmarshal(rsp.body.data, dst) ELSE dst
             es == rsp.body.errors
         IN  IF typedStatusError(rsp.status) # Nil
             THEN [err |-> typedStatusError(rsp.status), v |-> w]
             ELSE IF rsp.status # StatusOK THEN [err |-> ErrNon200(rsp.status), v |-> w]
             ELSE IF ~rsp.body.decodes THEN [err |-> ErrJSONDecode, v |-> dst]
             ELSE IF rsp.body.data \in {"bad", "badPartial"}
             THEN [err |-> ErrUnmarshalData, v |-> w]
             ELSE IF Len(es) > 0
             THEN IF \E i \in 1..Len(es) : es[i].code = MaxCostExceeded
                  THEN [err |-> ErrMaxCostExceeded, v |-> w]
                  ELSE [err |-> graphErrors(es), v |-> w]
             ELSE [err |-> Nil, v |-> w]

\* Client.doRequest: the error returned and the destination afterwards
doRequest(rsp, dst) ==
    IF rsp.kind = "transport" THEN [err |-> rsp.err, v |-> dst]
    ELSE IF typedStatusError(rsp.status) # Nil
         THEN [err |-> typedStatusError(rsp.status), v |-> dst]
    ELSE IF rsp.status # StatusOK THEN [err |-> ErrNon200(rsp.status), v |-> dst]
    ELSE IF ~rsp.body.decodes THEN [err |-> ErrJSONDecode, v |-> dst]
    ELSE IF rsp.body.data \in {"bad", "badPartial"}
         THEN [err |-> ErrUnmarshalData, v |-> Unmarshal(rsp.body.data, dst)]
    ELSE LET es == rsp.body.errors
             w  == Unmarshal(rsp.body.data, dst)
         IN  IF Len(es) > 0
             THEN IF hasMaxCostExceeded(es)
                  THEN [err |-> ErrMaxCostExceeded, v |-> w]
                  ELSE [err |-> graphErrors(es), v |-> w]
             ELSE [err |-> Nil, v |-> w]

(* ------------------------------- state --------------------------------- *)
VARIABLES
    c_retries,    \* Client.retries
    server,       \* which responses the server may give: "any" or "few"
    pc,           \* per call: "idle", "loop", "sleep", "done"
    budget,       \* per call: c.retries as read at the start of the call
    encodable,    \* per call: json Encode of the request envelope succeeds
    retries,      \* per call: the local variable retries of do
    attempts,     \* per call: the local variable attempts of do
    err,          \* per call: the local variable err of do
    ret,          \* per call: the error do returned
    v,            \* per call: the caller's destination
    requests,     \* per call: number of HTTP requests made
    sleeps,       \* per call: durations (seconds) of the backoff sleeps
    allRetryable, \* per call: every failure so far classified as retryable
    cancelled,    \* per call: "no", or where the call was suspended when its
                  \* context was cancelled: "network" or "sleep"
    resp,         \* doRequest alone: the response it is given
    res,          \* doRequest alone: what it returned, [err, v], or "none"
    trans,        \* graphqlclient.transport
    rtpc,         \* NewClient: "off", "config" (applying options), "built"
    nopts,        \* NewClient: options applied so far
    url,          \* the API path segment of the endpoint URL NewClient built
    sent,         \* RoundTrip has handled a request
    reqIn,        \* headers of the request handed to RoundTrip
    reqOut,       \* headers of the request RoundTrip forwarded
    gpc,          \* Get: "off", "start", "loop", "done", "panic"
    out,          \* Get: the product of the first page, edges accumulated
    hasNextPage,  \* Get: the local variable hasNextPage
    fetches,      \* Get: the cursor argument of each getPage call, in order
    served,       \* Get: what each getPage call returned, in order
    gret,         \* Get: the (product, error) returned
    variants      \* the variant nodes of the product on a well-behaved server

doVars == << c_retries, server, pc, budget, encodable, retries, attempts, err,
             ret, v, requests, sleeps, allRetryable, cancelled >>

reqVars == << resp, res >>

rtVars == << trans, rtpc, nopts, url, sent, reqIn, reqOut >>

getVars == << gpc, out, hasNextPage, fetches, served, gret, variants >>

vars == << doVars, reqVars, rtVars, getVars >>

Calls == DOMAIN pc

RetryValues == (0 - MaxNeg)..MaxRetries

NoResponse == [kind |-> "none"]
None == [err |-> Nil, v |-> "none"]

\* no doRequest on its own
ReqOff == resp = NoResponse /\ res = None

InitCalls(P, S) ==
    /\ server = S
    /\ pc = [p \in P |-> "idle"]
    /\ budget = [p \in P |-> 0]
    /\ encodable = [p \in P |-> TRUE]
    /\ retries = [p \in P |-> 0]
    /\ attempts = [p \in P |-> 0]
    /\ err = [p \in P |-> Nil]
    /\ ret = [p \in P |-> Nil]
    /\ v = [p \in P |-> "orig"]
    /\ requests = [p \in P |-> 0]
    /\ sleeps = [p \in P |-> << >>]
    /\ allRetryable = [p \in P |-> TRUE]
    /\ cancelled = [p \in P |-> "no"]

\* the responses of a server that answers with one of three statuses
FewResponses ==
    { r \in Responses(0) :
        /\ r.kind = "http"
        /\ r.status \in {StatusOK, StatusUnauthorized, StatusServiceUnavailable}
        /\ r.body.decodes /\ r.body.data = "ok" }

ServerResponses ==
    IF server = "any" THEN Responses(MaxErrsDo) ELSE FewResponses

(* ----------------------- authenticating transport --------------------- *)
shopifyAccessTokenHeader == "X-Shopify-Access-Token"
shopifyStoreFrontAccessTokenHeader == "X-Shopify-Storefront-Access-Token"
authorizationHeader == "Authorization"
defaultAPIPathPrefix == "admin/api"

CredHeaders ==
    { shopifyAccessTokenHeader, shopifyStoreFrontAccessTokenHeader,
      authorizationHeader }

\* a header value "" stands for an absent header
Requests == [CredHeaders -> {"", "caller"}]

\* req.SetBasicAuth: "Basic " followed by base64(apiKey ":" password)
BasicAuth(apiKey, password) ==
    CASE apiKey = "key" /\ password = "pw" -> "Basic a2V5OnB3"
      [] apiKey = "key" /\ password = "" -> "Basic a2V5Og=="
      [] apiKey = "" /\ password = "pw" -> "Basic OnB3"
      [] OTHER -> "Basic Og=="

\* the transport NewClient starts from
newTransport ==
    [ accessToken |-> "", storeFrontAccessToken |-> "", apiKey |-> "",
      password |-> "", apiPath |-> defaultAPIPathPrefix ]

\* the headers transport.RoundTrip forwards; every credential applied
RoundTrip_all(t, h) ==
    LET h1 == IF t.accessToken # ""
              THEN [h EXCEPT ![shopifyAccessTokenHeader] = t.accessToken]
              ELSE h
        h2 == IF t.apiKey # "" /\ t.password # ""
              THEN [h1 EXCEPT ![authorizationHeader] = BasicAuth(t.apiKey, t.password)]
              ELSE h1
    IN  IF t.storeFrontAccessToken # ""
        THEN [h2 EXCEPT ![shopifyStoreFrontAccessTokenHeader] = t.storeFrontAccessToken]
        ELSE h2
\* the headers transport.RoundTrip forwards
RoundTrip(t, h) ==
    IF t.accessToken # ""
    THEN [h EXCEPT ![shopifyAccessTokenHeader] = t.accessToken]
    ELSE IF t.apiKey # "" /\ t.password # ""
    THEN [h EXCEPT ![authorizationHeader] = BasicAuth(t.apiKey, t.password)]
    ELSE IF t.storeFrontAccessToken # ""
    THEN [h EXCEPT ![shopifyStoreFrontAccessTokenHeader] = t.storeFrontAccessToken]
    ELSE h

NoHeaders == [h \in CredHeaders |-> ""]

RtOff ==
    /\ trans = newTransport /\ rtpc = "off" /\ nopts = 0 /\ url = ""
    /\ sent = FALSE /\ reqIn = NoHeaders /\ reqOut = NoHeaders

\* NewClient applies the next option: WithToken(token)
WithToken(token) ==
    /\ rtpc = "config" /\ nopts < MaxOpts
    /\ trans' = [trans EXCEPT !.accessToken = token]
    /\ nopts' = nopts + 1
    /\ UNCHANGED << rtpc, url, sent, reqIn, reqOut, doVars, reqVars, getVars >>

\* NewClient applies the next option: WithStoreFrontToken(token)
WithStoreFrontToken(token) ==
    /\ rtpc = "config" /\ nopts < MaxOpts
    /\ trans' = [trans EXCEPT !.storeFrontAccessToken = token, !.apiPath = "api"]
    /\ nopts' = nopts + 1
    /\ UNCHANGED << rtpc, url, sent, reqIn, reqOut, doVars, reqVars, getVars >>

\* NewClient applies the next option: WithPrivateAppAuth(apiKey, password)
WithPrivateAppAuth(apiKey, password) ==
    /\ rtpc = "config" /\ nopts < MaxOpts
    /\ trans' = [trans EXCEPT !.apiKey = apiKey, !.password = password]
    /\ nopts' = nopts + 1
    /\ UNCHANGED << rtpc, url, sent, reqIn, reqOut, doVars, reqVars, getVars >>

\* NewClient, after the options: buildAPIEndpoint with trans.apiPath
NewClient ==
    /\ rtpc = "config"
    /\ rtpc' = "built"
    /\ url' = trans.apiPath
    /\ UNCHANGED << trans, nopts, sent, reqIn, reqOut, doVars, reqVars, getVars >>

\* transport.RoundTrip for one outbound request
DoRoundTrip(h) ==
    /\ rtpc = "built"
    /\ sent' = TRUE
    /\ reqIn' = h
    /\ reqOut' = RoundTrip(trans, h)
    /\ UNCHANGED << trans, rtpc, nopts, url, doVars, reqVars, getVars >>

NextRt ==
    \/ \E token \in {"", "tok"} : WithToken(token)
    \/ \E token \in {"", "sftok"} : WithStoreFrontToken(token)
    \/ \E apiKey \in {"", "key"}, password \in {"", "pw"} :
          WithPrivateAppAuth(apiKey, password)
    \/ NewClient
    \/ \E h \in Requests : DoRoundTrip(h)

(* ---------------------------- pagination walk -------------------------- *)
\* variant edges a server may return: a node and its cursor
Edges ==
    { [node |-> "a", cursor |-> "c1"], [node |-> "b", cursor |-> "c2"] }

\* what getPage may return: an error, or out.Product: nil, without Variants,
\* without PageInfo, or a page of edges
PageResults ==
    [kind : {"err"}, err : {"e1", "e2"}, edges : {<< >>}, hasNextPage : {FALSE}]
    \cup [kind : {"nilProduct", "nilVariants"}, err : {""}, edges : {<< >>},
          hasNextPage : {FALSE}]
    \cup [kind : {"nilPageInfo", "page"}, err : {""},
          edges : SeqsUpTo(Edges, MaxPageLen), hasNextPage : BOOLEAN]

NilProduct == [kind |-> "nilProduct", err |-> "", edges |-> << >>, hasNextPage |-> FALSE]

GetOff ==
    /\ gpc = "off" /\ out = NilProduct /\ hasNextPage = FALSE
    /\ fetches = << >> /\ served = << >> /\ gret = [product |-> NilProduct, err |-> ""]
    /\ variants = << >>

\* return nil, err
onPageError_partial(e, acc) == [product |-> acc, err |-> e]
onPageError(e, acc) == [product |-> NilProduct, err |-> e]

\* nextPageData.Variants.Edges[len(nextPageData.Variants.Edges)-1].Cursor
lastCursor_first(edges) == edges[1].cursor
lastCursor(edges) == edges[Len(edges)].cursor

\* the nextPageData of the loop condition and of the cursor: the variable
\* declared before the loop, which still points to out (the := inside the
\* loop body declares another nextPageData)
nextPageData(o) == o

\* for hasNextPage && len(nextPageData.Variants.Edges) > 0
loopCondition(o, hnp) == hnp /\ Len(nextPageData(o).edges) > 0

\* Get up to and including the first test of the loop condition
GetFirst(r) ==
    /\ gpc = "start"
    /\ fetches' = << "" >>
    /\ served' = << r >>
    /\ IF r.kind = "err"
       THEN /\ gret' = onPageError(r.err, NilProduct)
            /\ gpc' = "done"
            /\ UNCHANGED << out, hasNextPage >>
       ELSE /\ out' = r
            /\ IF r.kind = "page"
               THEN /\ hasNextPage' = r.hasNextPage
                    /\ IF loopCondition(r, r.hasNextPage)
                       THEN gpc' = "loop" /\ UNCHANGED gret
                       ELSE gpc' = "done" /\ gret' = [product |-> r, err |-> ""]
               ELSE /\ gpc' = "done"
                    /\ gret' = [product |-> r, err |-> ""]
                    /\ UNCHANGED hasNextPage
    /\ UNCHANGED << doVars, reqVars, rtVars, variants >>

\* one iteration of the loop and the next test of its condition
GetNext(r) ==
    /\ gpc = "loop"
    /\ Len(fetches) < MaxFetches
    /\ fetches' = Append(fetches, lastCursor(nextPageData(out).edges))
    /\ served' = Append(served, r)
    /\ IF r.kind = "err"
       THEN /\ gret' = onPageError(r.err, out)
            /\ gpc' = "done"
            /\ UNCHANGED << out, hasNextPage >>
       ELSE IF r.kind \in {"nilProduct", "nilVariants"}
       THEN /\ gpc' = "panic"
            /\ UNCHANGED << out, hasNextPage, gret >>
       ELSE LET o == [out EXCEPT !.edges = out.edges \o r.edges]
            IN  /\ out' = o
                /\ IF r.kind = "nilPageInfo"
                   THEN gpc' = "panic" /\ UNCHANGED << hasNextPage, gret >>
                   ELSE /\ hasNextPage' = r.hasNextPage
                        /\ IF loopCondition(o, r.hasNextPage)
                           THEN gpc' = "loop" /\ UNCHANGED gret
                           ELSE gpc' = "done" /\ gret' = [product |-> o, err |-> ""]
    /\ UNCHANGED << doVars, reqVars, rtVars, variants >>

NextGet ==
    \/ \E r \in PageResults : GetFirst(r)
    \/ \E r \in PageResults : GetNext(r)

\* productQuery selects edges{node{...}} and pageInfo{hasNextPage} of the
\* variants connection: the cursor field of the edges is not requested
productQuerySelectsCursor == FALSE

\* the position a cursor stands for on the server: the variable is absent
\* (getPage omits an empty cursor) or names the edge it was issued for
CursorPosition(cursor) ==
    IF cursor = "" THEN 0
    ELSE CHOOSE i \in 1..MaxVariants : ToString(i) = cursor

Min(a, b) == IF a <= b THEN a ELSE b

\* variants(first: n, after: $cursor) on a server that pages by the cursor it
\* receives and returns exactly the requested fields, as getPage decodes it:
\* an edge field that was not requested keeps its zero value
getPage(cursor) ==
    LET from == CursorPosition(cursor)
        to   == Min(from + MaxPageLen, Len(variants))
    IN  [ kind |-> "page", err |-> "",
          edges |-> [ i \in 1..(to - from) |->
                        [ node |-> variants[from + i],
                          cursor |-> IF productQuerySelectsCursor
                                     THEN ToString(from + i) ELSE "" ] ],
          hasNextPage |-> to < Len(variants) ]

\* Get against the well-behaved server: the first page
GetFirstPaged == GetFirst(getPage(""))

\* Get against the well-behaved server: a later page
GetNextPaged ==
    /\ gpc = "loop"
    /\ GetNext(getPage(lastCursor(nextPageData(out).edges)))

NextGetPaged == GetFirstPaged \/ GetNextPaged

\* Client.SetRetries
SetRetries(n) ==
    /\ c_retries # n
    /\ c_retries' = n
    /\ UNCHANGED << server, pc, budget, encodable, retries, attempts, err, ret,
                    v, requests, sleeps, allRetryable, cancelled, reqVars, rtVars, getVars >>

\* do, up to the loop: retries := c.retries; attempts := 0
doEnter(p, enc) ==
    /\ pc[p] = "idle"
    /\ pc' = [pc EXCEPT ![p] = "loop"]
    /\ budget' = [budget EXCEPT ![p] = c_retries]
    /\ encodable' = [encodable EXCEPT ![p] = enc]
    /\ retries' = [retries EXCEPT ![p] = c_retries]
    /\ attempts' = [attempts EXCEPT ![p] = 0]
    /\ UNCHANGED << c_retries, server, err, ret, v, requests, sleeps,
                    allRetryable, cancelled, reqVars, rtVars, getVars >>

\* if retries <= 1: the failure is terminal
exhausted_strict(r) == r <= 0
exhausted(r) == r <= 1

\* retries--: the local counter of the call, never the client's field
decrement_shared(p) ==
    /\ retries' = [retries EXCEPT ![p] = @ - 1]
    /\ c_retries' = c_retries - 1
decrement(p) ==
    /\ retries' = [retries EXCEPT ![p] = @ - 1]
    /\ UNCHANGED c_retries

\* one iteration of the loop whose Encode fails: return err
doEncodeFail(p) ==
    /\ pc[p] = "loop"
    /\ ~encodable[p]
    /\ attempts' = [attempts EXCEPT ![p] = @ + 1]
    /\ err' = [err EXCEPT ![p] = [kind |-> "encode"]]
    /\ ret' = [ret EXCEPT ![p] = [kind |-> "encode"]]
    /\ pc' = [pc EXCEPT ![p] = "done"]
    /\ UNCHANGED << c_retries, server, budget, encodable, retries, v, requests,
                    sleeps, allRetryable, cancelled, reqVars, rtVars, getVars >>

\* ctxhttp.Post: the server's answer, or ctx.Err() once the context is done
Post(p, answer) ==
    IF cancelled[p] # "no"
    THEN [kind |-> "transport", err |-> ContextCanceled]
    ELSE answer

\* time.Duration(attempts) * time.Second, in seconds
backoff_fixed(n) == 1
backoff(n) == n

\* the caller's context is cancelled, or its deadline expires, while the call
\* is suspended: at "loop" in the network wait of the attempt under way (the
\* attempt is counted when it completes; a call whose Encode fails never
\* reaches the network), at "sleep" in the backoff sleep
Cancel(p) ==
    /\ pc[p] \in {"loop", "sleep"}
    /\ encodable[p]
    /\ cancelled[p] = "no"
    /\ cancelled' = [cancelled EXCEPT ![p] = IF pc[p] = "loop" THEN "network" ELSE "sleep"]
    /\ UNCHANGED << c_retries, server, pc, budget, encodable, retries, attempts,
                    err, ret, v, requests, sleeps, allRetryable, reqVars, rtVars, getVars >>

\* one iteration of the loop: the attempt, then the decision on its error
doAttempt(p, answer) ==
    /\ pc[p] = "loop"
    /\ encodable[p]
    /\ LET r == doRequest(Post(p, answer), v[p])
           n == attempts[p] + 1
       IN  /\ attempts' = [attempts EXCEPT ![p] = n]
           /\ requests' = [requests EXCEPT ![p] = @ + 1]
           /\ err' = [err EXCEPT ![p] = r.err]
           /\ v' = [v EXCEPT ![p] = r.v]
           /\ allRetryable' = [allRetryable EXCEPT ![p] =
                                 @ /\ r.err # Nil /\ shouldRetry(r.err)]
           /\ IF r.err = Nil
              THEN /\ ret' = [ret EXCEPT ![p] = Nil]
                   /\ pc' = [pc EXCEPT ![p] = "done"]
                   /\ UNCHANGED << c_retries, retries, sleeps >>
              ELSE IF exhausted(retries[p])
              THEN /\ ret' = [ret EXCEPT ![p] = AfterAttempts(n, r.err)]
                   /\ pc' = [pc EXCEPT ![p] = "done"]
                   /\ UNCHANGED << c_retries, retries, sleeps >>
              ELSE IF shouldRetry(r.err)
              THEN /\ decrement(p)
                   /\ sleeps' = [sleeps EXCEPT ![p] = Append(@, backoff(n))]
                   /\ pc' = [pc EXCEPT ![p] = "sleep"]
                   /\ UNCHANGED ret
              ELSE /\ ret' = [ret EXCEPT ![p] = r.err]
                   /\ pc' = [pc EXCEPT ![p] = "done"]
                   /\ UNCHANGED << c_retries, retries, sleeps >>
    /\ UNCHANGED << server, budget, encodable, cancelled, reqVars, rtVars, getVars >>

\* time.Sleep returns: continue
doWake(p) ==
    /\ pc[p] = "sleep"
    /\ pc' = [pc EXCEPT ![p] = "loop"]
    /\ UNCHANGED << c_retries, server, budget, encodable, retries, attempts,
                    err, ret, v, requests, sleeps, allRetryable, cancelled, reqVars, rtVars, getVars >>

NextDo ==
    \/ \E n \in RetryValues : SetRetries(n)
    \/ \E p \in Calls, enc \in BOOLEAN : doEnter(p, enc)
    \/ \E p \in Calls : doEncodeFail(p)
    \/ \E p \in Calls, answer \in ServerResponses : doAttempt(p, answer)
    \/ \E p \in Calls : doWake(p)
    \/ \E p \in Calls : Cancel(p)

\* one call through a client, against a server that may answer anything
InitDo ==
    c_retries = 0 /\ InitCalls({1}, "any") /\ ReqOff /\ RtOff /\ GetOff
SpecDo == InitDo /\ [][NextDo]_vars

\* two concurrent calls through one client
InitConc ==
    c_retries = 0 /\ InitCalls({1, 2}, "few") /\ ReqOff /\ RtOff /\ GetOff

\* no call through do
DoOff == c_retries = 0 /\ InitCalls({}, "few")

\* doRequest on its own, applied to one response
Classify ==
    /\ res = None
    /\ res' = doRequest(resp, "orig")
    /\ UNCHANGED << doVars, resp, rtVars, getVars >>

NextReq == Classify

InitReq ==
    DoOff /\ resp \in Responses(MaxErrs) /\ res = None /\ RtOff /\ GetOff
SpecReq == InitReq /\ [][NextReq]_vars
SpecConc == InitConc /\ [][NextDo]_vars

\* graphqlclient.NewClient with any options, then requests through RoundTrip
InitRt ==
    /\ DoOff /\ ReqOff /\ GetOff
    /\ trans = newTransport /\ rtpc = "config" /\ nopts = 0 /\ url = ""
    /\ sent = FALSE /\ reqIn = NoHeaders /\ reqOut = NoHeaders
SpecRt == InitRt /\ [][NextRt]_vars

\* one ProductServiceOp.Get against a server that may answer anything
InitGet ==
    /\ DoOff /\ ReqOff /\ RtOff
    /\ gpc = "start" /\ out = NilProduct /\ hasNextPage = FALSE
    /\ fetches = << >> /\ served = << >> /\ gret = [product |-> NilProduct, err |-> ""]
    /\ variants = << >>
SpecGet == InitGet /\ [][NextGet]_vars

\* one ProductServiceOp.Get of a product held by a well-behaved server
VariantNodes == {"a", "b", "c"}
InitGetPaged ==
    /\ DoOff /\ ReqOff /\ RtOff
    /\ gpc = "start" /\ out = NilProduct /\ hasNextPage = FALSE
    /\ fetches = << >> /\ served = << >> /\ gret = [product |-> NilProduct, err |-> ""]
    /\ variants \in SeqsUpTo(VariantNodes, MaxVariants)
SpecGetPaged == InitGetPaged /\ [][NextGetPaged]_vars

(* ------------------------- claims: retry loop -------------------------- *)
Max(a, b) == IF a >= b THEN a ELSE b

\* the call p has returned after a run in which every attempt was made and
\* every response classified as retryable
AlwaysRetryableRun(p) ==
    pc[p] = "done" /\ encodable[p] /\ allRetryable[p]

\* C1 (as stated): with a budget N >= 0 and a server whose every response is
\* retryable, a call makes exactly N HTTP requests and fails with an error
\* whose attempt count is N.
C1_ExactlyN ==
    \A p \in Calls :
        AlwaysRetryableRun(p) /\ budget[p] >= 0 =>
            /\ requests[p] = budget[p]
            /\ ret[p] = AfterAttempts(budget[p], err[p])

\* C1 (amended): with a budget N >= 0 and a server whose every response is
\* retryable, a call makes exactly max(N, 1) HTTP requests and fails with an
\* error whose attempt count is max(N, 1).
C1_ExactlyMaxN1 ==
    \A p \in Calls :
        AlwaysRetryableRun(p) /\ budget[p] >= 0 =>
            /\ requests[p] = Max(budget[p], 1)
            /\ attempts[p] = Max(budget[p], 1)
            /\ ret[p] = AfterAttempts(Max(budget[p], 1), err[p])

C1_Witness ==
    \E p \in Calls :
        AlwaysRetryableRun(p) /\ budget[p] = MaxRetries /\ requests[p] = MaxRetries

\* the non-retryable classifications C2 lists
NonRetryableListed(e) ==
    \/ e \in { ErrUnauthorized, ErrPaymentRequired, ErrForbidden, ErrNotFound,
               ErrLocked, ErrInternal, ErrJSONDecode, ErrUnmarshalData }
    \/ e.kind = "non200"
    \/ /\ e.kind = "graphErrors"
       /\ \A i \in 1..Len(e.errors) : e.errors[i].code # MaxCostExceeded
       /\ e.errors[1].message # "Throttled"

\* C2: whatever the budget, when attempt 1 fails with a listed non-retryable
\* classification the call has returned after exactly 1 attempt and 1 HTTP
\* request, slept never, left its retry counter at the budget, and returned
\* that error (bare, or as the error wrapped by "after 1 attempts").
C2_NonRetryableOnce ==
    \A p \in Calls :
        attempts[p] = 1 /\ NonRetryableListed(err[p]) =>
            /\ pc[p] = "done"
            /\ requests[p] = 1
            /\ sleeps[p] = << >>
            /\ retries[p] = budget[p]
            /\ ret[p] \in { err[p], AfterAttempts(1, err[p]) }

C2_Witness ==
    \E p \in Calls :
        /\ pc[p] = "done" /\ attempts[p] = 1 /\ budget[p] = MaxRetries
        /\ err[p] = ErrInternal /\ ret[p] = ErrInternal

\* C10 (as stated): every error returned after two or more attempts is
\* wrapped with the attempt count.
C10_WrappedAfterRetry ==
    \A p \in Calls :
        pc[p] = "done" /\ ret[p] # Nil /\ attempts[p] >= 2 =>
            ret[p] = AfterAttempts(attempts[p], err[p])

\* C9 (as stated): the counter a call counts down is the client's: every
\* decrement made by a call lowers the budget the client holds for the others.
C9_SharedCounter ==
    [][\A p \in Calls : retries'[p] < retries[p] /\ pc[p] = "loop"
            => c_retries' < c_retries]_vars

\* C9 (amended): a call counts down its own copy of the budget, read once
\* when the call starts: an attempt of one call changes neither the client's
\* budget nor the counter of any other call, and the counter of a running
\* call is its budget less the retries it has itself consumed.
C9_PerCallCounter ==
    [][\A p \in Calls : attempts'[p] # attempts[p] /\ pc[p] = "loop" =>
            /\ c_retries' = c_retries
            /\ \A q \in Calls \ {p} : retries'[q] = retries[q]
            /\ retries'[p] = budget[p] - Len(sleeps'[p])]_vars

C9_Witness ==
    /\ Calls = {1, 2}
    /\ pc[1] = "done" /\ requests[1] = MaxRetries /\ budget[1] = MaxRetries
    /\ pc[2] = "done" /\ requests[2] = MaxRetries /\ budget[2] = MaxRetries
    /\ c_retries = MaxRetries

(* ------------------------- claims: doRequest --------------------------- *)
\* doRequest has returned for an HTTP 200 response whose envelope decodes and
\* carries a MAX_COST_EXCEEDED record
CostExceededCase ==
    /\ res # None /\ resp.kind = "http" /\ resp.status = StatusOK
    /\ resp.body.decodes
    /\ \E i \in 1..Len(resp.body.errors) :
           resp.body.errors[i].code = MaxCostExceeded

\* C3 (as stated): an HTTP 200 response whose envelope decodes and whose
\* errors array holds a MAX_COST_EXCEEDED record at any position yields
\* ErrMaxCostExceeded, whatever the other records and the data field contain.
C3_CostExceededAlways ==
    CostExceededCase => res.err = ErrMaxCostExceeded

\* C3 (amended): ... yields ErrMaxCostExceeded, whatever the other records
\* contain, provided the data field is absent or unmarshals into the
\* destination; a data field that does not unmarshal yields the
\* unmarshal-data error instead.
C3_CostExceededUnlessBadData ==
    CostExceededCase =>
        IF resp.body.data \in {"bad", "badPartial"}
        THEN res.err = ErrUnmarshalData
        ELSE res.err = ErrMaxCostExceeded

C3_Witness ==
    /\ CostExceededCase
    /\ Len(resp.body.errors) = 2
    /\ resp.body.errors[1].code # MaxCostExceeded
    /\ resp.body.data = "ok"
    /\ res.err = ErrMaxCostExceeded

TypedStatuses ==
    { StatusPaymentRequired, StatusLocked, StatusUnauthorized, StatusForbidden,
      StatusNotFound, StatusInternalServerError, StatusServiceUnavailable,
      StatusGatewayTimeout }

\* the typed error the error taxonomy assigns to a status
TypedErrorOf(status) ==
    CASE status = 402 -> ErrPaymentRequired
      [] status = 423 -> ErrLocked
      [] status = 401 -> ErrUnauthorized
      [] status = 403 -> ErrForbidden
      [] status = 404 -> ErrNotFound
      [] status = 500 -> ErrInternal
      [] status = 503 -> ErrServiceUnavailable
      [] status = 504 -> ErrGatewayTimeout

\* C4: for a response with status 402, 423, 401, 403, 404, 500, 503 or 504,
\* whatever its body, doRequest returns exactly the typed error of that
\* status and leaves the destination unwritten.
C4_TypedStatusError ==
    res # None /\ resp.kind = "http" /\ resp.status \in TypedStatuses =>
        /\ res.err = TypedErrorOf(resp.status)
        /\ res.v = "orig"

C4_Witness ==
    /\ res = [err |-> ErrForbidden, v |-> "orig"]
    /\ resp.kind = "http" /\ resp.status = StatusForbidden
    /\ resp.body.decodes /\ resp.body.data = "ok"
    /\ Len(resp.body.errors) > 0

(* ---------------------- claims: pagination walk ------------------------ *)
RECURSIVE ConcatEdges(_)
\* the edges of a sequence of pages, concatenated in order
ConcatEdges(pages) ==
    IF pages = << >> THEN << >>
    ELSE pages[1].edges \o ConcatEdges(Tail(pages))

\* the server answered with pages p1..pn: every one a non-empty page, all but
\* the last reporting hasNextPage = true, the last hasNextPage = false
WellFormedPages ==
    /\ Len(served) >= 1
    /\ \A i \in 1..Len(served) :
          /\ served[i].kind = "page"
          /\ Len(served[i].edges) > 0
          /\ served[i].hasNextPage = (i < Len(served))

\* C5: over non-empty pages p1..pn of which only the last reports
\* hasNextPage = false, Get makes exactly n fetches, the first with the empty
\* cursor and each next one with the cursor of the last edge of the page
\* before, and returns the pages' edges concatenated in order.
C5_WalkConcatenates ==
    WellFormedPages =>
        /\ gpc = "done"
        /\ Len(fetches) = Len(served)
        /\ fetches[1] = ""
        /\ \A i \in 1..(Len(served) - 1) :
              fetches[i + 1] = served[i].edges[Len(served[i].edges)].cursor
        /\ gret.err = ""
        /\ gret.product.kind = "page"
        /\ gret.product.edges = ConcatEdges(served)

C5_Witness ==
    /\ WellFormedPages /\ Len(served) = 3 /\ gpc = "done"
    /\ Len(served[1].edges) = 2
    /\ served[1].edges[1].cursor # served[1].edges[2].cursor
    /\ Len(gret.product.edges) >= 4

\* C6 (as stated): once a fetched page has zero edges, even with
\* hasNextPage = true, the walk is over: no further fetch is issued.
C6_StopsOnEmptyPage ==
    \A i \in 1..Len(served) :
        served[i].kind = "page" /\ served[i].edges = << >> => i = Len(served)

\* C7: when a page fetch returns an error, on the first page or a later one,
\* Get issues no further fetch and returns that error with a nil product.
C7_ErrorDiscardsAll ==
    \A i \in 1..Len(served) :
        served[i].kind = "err" =>
            /\ i = Len(served)
            /\ gpc = "done"
            /\ gret = [product |-> NilProduct, err |-> served[i].err]

C7_Witness ==
    /\ Len(served) = 3 /\ served[3].kind = "err" /\ gpc = "done"
    /\ Len(out.edges) >= 2
    /\ gret.product = NilProduct /\ gret.err = served[3].err

(* ------------------- claims: authenticating transport ------------------ *)
\* the credential headers RoundTrip changed on the request
Applied == { h \in CredHeaders : reqOut[h] # reqIn[h] }

BearerConfigured == trans.accessToken # ""
BasicConfigured == trans.apiKey # "" /\ trans.password # ""
StoreFrontConfigured == trans.storeFrontAccessToken # ""

\* C8: RoundTrip applies at most one credential scheme, chosen by the
\* precedence bearer token > basic auth > storefront token; with none
\* configured the request is forwarded with its headers unchanged.
C8_OneCredential ==
    sent =>
        /\ Cardinality(Applied) <= 1
        /\ \A h \in CredHeaders \ Applied : reqOut[h] = reqIn[h]
        /\ BearerConfigured =>
              /\ Applied = {shopifyAccessTokenHeader}
              /\ reqOut[shopifyAccessTokenHeader] = trans.accessToken
        /\ ~BearerConfigured /\ BasicConfigured =>
              /\ Applied = {authorizationHeader}
              /\ reqOut[authorizationHeader] = "Basic a2V5OnB3"
        /\ ~BearerConfigured /\ ~BasicConfigured /\ StoreFrontConfigured =>
              /\ Applied = {shopifyStoreFrontAccessTokenHeader}
              /\ reqOut[shopifyStoreFrontAccessTokenHeader] = trans.storeFrontAccessToken
        /\ ~BearerConfigured /\ ~BasicConfigured /\ ~StoreFrontConfigured =>
              reqOut = reqIn

C8_Witness ==
    /\ sent /\ BearerConfigured /\ BasicConfigured /\ StoreFrontConfigured
    /\ reqIn[authorizationHeader] = "caller"
    /\ Applied = {shopifyAccessTokenHeader}

(* ------------------ claims: cancellation, backoff, budget --------------- *)
\* C11 (as stated): once the caller's context is cancelled while the call is
\* suspended, a pending backoff sleep is not run to its end (the call leaves
\* the sleep only by returning), a call cancelled in its sleep starts no
\* further attempt, and the call returns a cancellation error.
C11_CancelAborts ==
    [][\A p \in Calls : cancelled[p] # "no" =>
            /\ pc[p] = "sleep" => pc'[p] \in {"sleep", "done"}
            /\ cancelled[p] = "sleep" => attempts'[p] = attempts[p]
            /\ pc[p] # "done" /\ pc'[p] = "done" =>
                  ErrorsIs(ret'[p], ContextCanceled)]_vars

\* C12 (as stated): the backoff sleep that precedes attempt k, k >= 2, lasts
\* k seconds.
C12_SleepIsK ==
    \A p \in Calls : \A k \in 2..(Len(sleeps[p]) + 1) : sleeps[p][k - 1] = k

\* C12 (amended): the backoff sleep that precedes attempt k, k >= 2, lasts
\* k - 1 seconds (the number of the attempt that just failed), so the sleeps
\* of a call are non-decreasing in the attempt number.
C12_SleepIsKMinus1 ==
    \A p \in Calls :
        /\ \A k \in 2..(Len(sleeps[p]) + 1) : sleeps[p][k - 1] = k - 1
        /\ \A i, j \in 1..Len(sleeps[p]) : i <= j => sleeps[p][i] <= sleeps[p][j]
        /\ pc[p] = "sleep" => Len(sleeps[p]) = attempts[p]

C12_Witness ==
    \E p \in Calls :
        /\ pc[p] = "done" /\ attempts[p] = MaxRetries
        /\ Len(sleeps[p]) = MaxRetries - 1
        /\ sleeps[p][MaxRetries - 1] = MaxRetries - 1

\* C13 (as stated): whatever SetRetries stored, the retry counter a call uses
\* is never negative, and a failure observed while the counter is 0 is
\* terminal.
C13_CounterNonNegative ==
    \A p \in Calls :
        /\ pc[p] # "idle" => retries[p] >= 0
        /\ retries[p] = 0 /\ attempts[p] >= 1 /\ err[p] # Nil => pc[p] = "done"

\* C15 (as stated): when a call through do has ended in failure, the
\* destination is exactly as the caller passed it.
C15_FailureLeavesDestination ==
    \A p \in Calls : pc[p] = "done" /\ ret[p] # Nil => v[p] = "orig"

\* the failures of an attempt whose response was an HTTP 200 envelope with a
\* data payload
FailsAfterData(e) ==
    e.kind \in {"unmarshalData", "ErrMaxCostExceeded", "graphErrors"}

\* C15 (amended): an attempt writes the destination only when its response
\* is an HTTP 200 envelope with a data payload, whether the attempt then
\* succeeds, fails (unmarshal error, cost exceeded, GraphQL error list) or is
\* retried; an attempt failing in any other way, and every step that is not
\* an attempt, leaves the destination as it was.
C15_WrittenOnlyWithData ==
    [][\A p \in Calls : v'[p] # v[p] =>
            /\ attempts'[p] = attempts[p] + 1
            /\ err'[p] = Nil \/ FailsAfterData(err'[p])]_vars

C15_Witness ==
    \E p \in Calls :
        /\ pc[p] = "done" /\ attempts[p] >= 2
        /\ ret[p].kind = "afterAttempts" /\ ret[p].err = ErrMaxCostExceeded
        /\ v[p] = "data"

(* --------------------- claims: endpoint and paging --------------------- *)
\* C14 (as stated): the API path segment of the endpoint is "api" exactly
\* when the storefront token is the credential RoundTrip attaches, and
\* "admin/api" otherwise.
C14_PathFollowsCredential ==
    sent =>
        IF Applied = {shopifyStoreFrontAccessTokenHeader}
        THEN url = "api"
        ELSE url = "admin/api"

\* C16 (as stated): against a well-behaved server, every fetch after the
\* first sends a non-empty cursor, no variant is appended twice, and the
\* walk of a product with more than one page of variants ends.
C16_PagedWalkTerminates ==
    /\ \A i \in 2..Len(fetches) : fetches[i] # ""
    /\ Len(out.edges) <= Len(variants)
    /\ Len(fetches) * MaxPageLen >= Len(variants) => gpc # "loop"

====
